---- MODULE Spec2Model ----
(***************************************************************************)
(* DiskMotion: the disk-scheduling engine of algorithms.js (src/algo.js)   *)
(* and the global application state of app.js (src/ui.js).                 *)
(*                                                                         *)
(* The engine has two entry points.  calculateSimulationHistory builds the *)
(* global `history` array, one Step per head position, for the selected    *)
(* algorithm; getAlgorithmStats recomputes only the total seek time.  Both *)
(* are modelled as operators that compute what the JavaScript computes,    *)
(* statement by statement, and each call is one action of the state        *)
(* machine.                                                                *)
(***************************************************************************)
EXTENDS Integers, Sequences, FiniteSets, TLC

\* ------------------------------------------------------------- bounds ----
\* Request lists hold at most MaxLen entries.
MaxLen == 3
\* Requests and start positions are drawn from 0..MaxPos and DISK_MAX.
MaxPos == 2

\* The request field of the form, and a request list in a direct call of
\* the engine with arbitrary arguments, hold at most UiMaxLen entries.
UiMaxLen == 2

\* ---------------------------------------------------------- constants ----
\* window.DISK_MAX
DISK_MAX == 199

\* The option values of the algorithm and direction selects.
Algorithms == {"fcfs", "sstf", "scan", "c-scan", "look", "c-look"}
Directions == {"left", "right"}

\* Disk addresses the model draws requests and start positions from.
Positions == {p \in 0..MaxPos : p <= DISK_MAX} \cup {DISK_MAX}

\* All request lists of length 0..MaxLen over Positions (repeats allowed).
RequestLists == UNION {[1..n -> Positions] : n \in 0..MaxLen}

VARIABLES
    algorithm,          \* argument: the algorithm token
    requests,           \* argument: the request list, as passed by the caller
    startHead,          \* argument: the starting head position
    direction,          \* argument: the starting direction
    history,            \* window.history: the sequence of Steps
    currentStateIndex,  \* window.currentStateIndex (0-based, as in the code)
    originalRequestSet, \* window.originalRequestSet, in insertion order
    statsResult,        \* <<v>>: v is what the latest getAlgorithmStats call returned
    isPlaying,          \* window.isPlaying
    timerId,            \* window.timerId: id of the latest setTimeout (0: null)
    pendingTimeouts,    \* ids of the animateLoop timeouts scheduled and not yet
                        \* fired or cleared
    disabled,           \* the disabled attribute of the controls
    errorMessageBox,    \* the text of the error box ("" when hidden)
    compareModalTableBody  \* the rows of the Compare All table

\* The application state outside the engine.
uiVars == <<isPlaying, timerId, pendingTimeouts, disabled, errorMessageBox,
            compareModalTableBody>>

vars == <<algorithm, requests, startHead, direction, history,
          currentStateIndex, originalRequestSet, statsResult, isPlaying,
          timerId, pendingTimeouts, disabled, errorMessageBox,
          compareModalTableBody>>

\* ------------------------------------------------- JavaScript helpers ----
\* Mutant of Abs: the call of Math.abs is missing.
Abs_Identity(x) == x

\* Math.abs
Abs(x) == IF x < 0 THEN -x ELSE x

\* Array.prototype.includes / Set.prototype.has on an insertion-ordered list
Includes(seq, x) == \E i \in 1..Len(seq) : seq[i] = x

\* The set of values of an array
Values(seq) == {seq[i] : i \in 1..Len(seq)}

\* Mutant of Dedupe: the list is not passed through a Set.
Dedupe_Identity(seq) == seq

\* [...new Set(list)]: the distinct values, each at its first occurrence
RECURSIVE Dedupe(_)
Dedupe(seq) ==
    IF seq = <<>> THEN <<>>
    ELSE LET front == Dedupe(SubSeq(seq, 1, Len(seq) - 1))
             last  == seq[Len(seq)]
         IN IF Includes(front, last) THEN front ELSE Append(front, last)

\* Insert x in the ascending list seq, after the entries that are <= x
RECURSIVE InsertAsc(_, _)
InsertAsc(seq, x) ==
    IF seq = <<>> THEN <<x>>
    ELSE IF x < Head(seq) THEN <<x>> \o seq
    ELSE <<Head(seq)>> \o InsertAsc(Tail(seq), x)

\* list.sort((a,b)=>a-b): ascending numeric order, stable
RECURSIVE SortAsc(_)
SortAsc(seq) ==
    IF seq = <<>> THEN <<>>
    ELSE InsertAsc(SortAsc(SubSeq(seq, 1, Len(seq) - 1)), seq[Len(seq)])

\* list.reverse()
Reverse(seq) == [i \in 1..Len(seq) |-> seq[Len(seq) + 1 - i]]

\* list.filter(r => r < head) and list.filter(r => r >= head)
Below(seq, head) == SelectSeq(seq, LAMBDA r : r < head)
AtOrAbove(seq, head) == SelectSeq(seq, LAMBDA r : r >= head)

\* Set.prototype.delete on an insertion-ordered list of distinct values
Delete(seq, x) == SelectSeq(seq, LAMBDA r : r # x)

\* ------------------------------------------- Part 1: history generator ----
\* Mutant of addHistoryStep: the Step holds the working served set and
\* servedOrder array themselves instead of copies, so every Step pushed
\* before by the same path function shows what they hold now.
addHistoryStep_Aliased(hist, head, seek, servedSet, servedOrder) ==
    Append([i \in 1..Len(hist) |->
               IF i = 1 THEN hist[i]
               ELSE [hist[i] EXCEPT !.served = servedSet,
                                    !.servedOrder = servedOrder]],
           [head |-> head, seek |-> seek,
            served |-> servedSet, servedOrder |-> servedOrder])

\* The object pushed by addHistoryStep: served and servedOrder are copies.
addHistoryStep(hist, head, seek, servedSet, servedOrder) ==
    Append(hist, [head |-> head, seek |-> seek,
                  served |-> servedSet, servedOrder |-> servedOrder])

\* The locals every path function declares first, with the history so far.
StartWalk(hist, head) ==
    [currentHead |-> head, totalSeek |-> 0, served |-> {},
     servedOrder |-> <<>>, history |-> hist]

\* Mutant of ServeRequest: the move is charged req - currentHead, without
\* Math.abs.
ServeRequest_Signed(w, req) ==
    LET seek  == w.totalSeek + (req - w.currentHead)
        srv   == w.served \cup {req}
        order == Append(w.servedOrder, req)
    IN [currentHead |-> req, totalSeek |-> seek, served |-> srv,
        servedOrder |-> order,
        history |-> addHistoryStep(w.history, req, seek, srv, order)]

\* Mutant of ServeRequest: servedOrder.unshift(req) instead of push(req).
ServeRequest_Unshift(w, req) ==
    LET seek  == w.totalSeek + Abs(req - w.currentHead)
        srv   == w.served \cup {req}
        order == <<req>> \o w.servedOrder
    IN [currentHead |-> req, totalSeek |-> seek, served |-> srv,
        servedOrder |-> order,
        history |-> addHistoryStep(w.history, req, seek, srv, order)]

\* The loop body that moves the head to a request and serves it.
ServeRequest(w, req) ==
    LET seek  == w.totalSeek + Abs(req - w.currentHead)
        srv   == w.served \cup {req}
        order == Append(w.servedOrder, req)
    IN [currentHead |-> req, totalSeek |-> seek, served |-> srv,
        servedOrder |-> order,
        history |-> addHistoryStep(w.history, req, seek, srv, order)]

\* Mutant of ServeEach: the `if (req === startHead) continue` is missing.
RECURSIVE ServeEach_NoSkip(_, _, _, _)
ServeEach_NoSkip(w, list, skipStart, head) ==
    IF list = <<>> THEN w
    ELSE ServeEach_NoSkip(ServeRequest(w, Head(list)), Tail(list),
                          skipStart, head)

\* for (const req of list) { if (req === startHead) continue; serve req },
\* or the same loop without the continue statement when skipStart is FALSE.
RECURSIVE ServeEach(_, _, _, _)
ServeEach(w, list, skipStart, head) ==
    IF list = <<>> THEN w
    ELSE ServeEach(IF skipStart /\ Head(list) = head THEN w
                   ELSE ServeRequest(w, Head(list)),
                   Tail(list), skipStart, head)

\* Mutant of MarkStartServed: the block that serves a request at startHead
\* is missing.
MarkStartServed_Omitted(w, sortedRequests, head) == w

\* if (sortedRequests.includes(startHead)) { serve it where the head is }
MarkStartServed(w, sortedRequests, head) ==
    IF Includes(sortedRequests, head)
    THEN LET srv   == w.served \cup {head}
             order == Append(w.servedOrder, head)
         IN [w EXCEPT !.served = srv, !.servedOrder = order,
                      !.history = addHistoryStep(w.history, w.currentHead,
                                                 w.totalSeek, srv, order)]
    ELSE w

\* Mutant of SweepTo: the head turns at the last request, with no sweep.
SweepTo_Skipped(w, edge) == w

\* Mutant of SweepTo: the edge is recorded as a served request.
SweepTo_Serves(w, edge) ==
    IF w.currentHead # edge THEN ServeRequest(w, edge) ELSE w

\* Mutant of SweepTo: the sweep ends one address past the edge.
SweepTo_Overshoot(w, edge) ==
    LET seek == w.totalSeek + Abs(edge + 1 - w.currentHead)
    IN [w EXCEPT !.totalSeek = seek, !.currentHead = edge + 1,
                 !.history = addHistoryStep(w.history, edge + 1, seek,
                                            w.served, w.servedOrder)]

\* if (currentHead !== edge) { move to the edge; nothing is served }
SweepTo(w, edge) ==
    IF w.currentHead # edge
    THEN LET seek == w.totalSeek + Abs(edge - w.currentHead)
         IN [w EXCEPT !.totalSeek = seek, !.currentHead = edge,
                      !.history = addHistoryStep(w.history, edge, seek,
                                                 w.served, w.servedOrder)]
    ELSE w

\* Mutant of WrapTo: no jump; the far side is served on the way back from
\* the edge the sweep reached.
WrapTo_Skipped(w, edge) == w

\* Mutant of WrapTo: the jump to the opposite edge is not charged.
WrapTo_Free(w, edge) ==
    [w EXCEPT !.currentHead = edge,
              !.history = addHistoryStep(w.history, edge, w.totalSeek,
                                         w.served, w.servedOrder)]

\* totalSeek += DISK_MAX; currentHead = the opposite edge; nothing is served
WrapTo(w, edge) ==
    LET seek == w.totalSeek + DISK_MAX
    IN [w EXCEPT !.totalSeek = seek, !.currentHead = edge,
                 !.history = addHistoryStep(w.history, edge, seek,
                                            w.served, w.servedOrder)]

\* FCFS loop body: the visit is charged; the request is recorded as served
\* when window.originalRequestSet has it.
FcfsVisit(w, req, origSet) ==
    LET seek  == w.totalSeek + Abs(req - w.currentHead)
        has   == Includes(origSet, req)
        srv   == IF has THEN w.served \cup {req} ELSE w.served
        order == IF has THEN Append(w.servedOrder, req) ELSE w.servedOrder
    IN [currentHead |-> req, totalSeek |-> seek, served |-> srv,
        servedOrder |-> order,
        history |-> addHistoryStep(w.history, req, seek, srv, order)]

RECURSIVE FcfsLoop(_, _, _)
FcfsLoop(w, list, origSet) ==
    IF list = <<>> THEN w
    ELSE FcfsLoop(FcfsVisit(w, Head(list), origSet), Tail(list), origSet)

calculateFcfsPath(hist, reqs, head, origSet) ==
    FcfsLoop(StartWalk(hist, head), reqs, origSet).history

\* Mutant of Nearest: dist is req - currentHead, without Math.abs.
RECURSIVE Nearest_Signed(_, _, _)
Nearest_Signed(remaining, from, best) ==
    IF remaining = <<>> THEN best
    ELSE LET dist == Head(remaining) - from
         IN Nearest_Signed(Tail(remaining), from,
                           IF ~best.found \/ dist < best.shortestDist
                           THEN [found |-> TRUE, shortestDist |-> dist,
                                 nextReq |-> Head(remaining)]
                           ELSE best)

\* Mutant of Nearest: the test is dist <= shortestDist, so of several
\* nearest requests the last one met is kept.
RECURSIVE Nearest_LastWins(_, _, _)
Nearest_LastWins(remaining, from, best) ==
    IF remaining = <<>> THEN best
    ELSE LET dist == Abs(Head(remaining) - from)
         IN Nearest_LastWins(Tail(remaining), from,
                             IF ~best.found \/ dist <= best.shortestDist
                             THEN [found |-> TRUE, shortestDist |-> dist,
                                   nextReq |-> Head(remaining)]
                             ELSE best)

\* The inner for loop of SSTF: the first entry of `remaining`, in iteration
\* order, whose distance is strictly smaller than every earlier one.  found
\* is FALSE while shortestDist is still Infinity and nextReq is -1.
RECURSIVE Nearest(_, _, _)
Nearest(remaining, from, best) ==
    IF remaining = <<>> THEN best
    ELSE LET dist == Abs(Head(remaining) - from)
         IN Nearest(Tail(remaining), from,
                    IF ~best.found \/ dist < best.shortestDist
                    THEN [found |-> TRUE, shortestDist |-> dist,
                          nextReq |-> Head(remaining)]
                    ELSE best)

NearestRequest(remaining, from) ==
    Nearest(remaining, from,
            [found |-> FALSE, shortestDist |-> 0, nextReq |-> -1])

\* while (remaining.size > 0) { pick the nearest, serve it, delete it }
RECURSIVE SstfLoop(_, _)
SstfLoop(w, remaining) ==
    IF remaining = <<>> THEN w
    ELSE LET best  == NearestRequest(remaining, w.currentHead)
             seek  == w.totalSeek + best.shortestDist
             srv   == w.served \cup {best.nextReq}
             order == Append(w.servedOrder, best.nextReq)
         IN SstfLoop([currentHead |-> best.nextReq, totalSeek |-> seek,
                      served |-> srv, servedOrder |-> order,
                      history |-> addHistoryStep(w.history, best.nextReq,
                                                 seek, srv, order)],
                     Delete(remaining, best.nextReq))

calculateSstfPath(hist, reqs, head) ==
    LET remaining == Dedupe(reqs)
        w0 == StartWalk(hist, head)
        w1 == MarkStartServed(w0, remaining, head)
    IN SstfLoop(w1, Delete(remaining, head)).history

\* Mutant of calculateScanPath: the direction test is inverted, so the run
\* starts towards the wrong side.
calculateScanPath_Flipped(hist, reqs, head, dir) ==
    LET sortedRequests == SortAsc(Dedupe(reqs))
        leftRequests   == Reverse(Below(sortedRequests, head))
        rightRequests  == AtOrAbove(sortedRequests, head)
        w0 == MarkStartServed(StartWalk(hist, head), sortedRequests, head)
    IN IF dir # "right"
       THEN LET w1 == ServeEach(w0, rightRequests, TRUE, head)
                w2 == SweepTo(w1, DISK_MAX)
            IN ServeEach(w2, leftRequests, FALSE, head).history
       ELSE LET w1 == ServeEach(w0, leftRequests, FALSE, head)
                w2 == SweepTo(w1, 0)
            IN ServeEach(w2, rightRequests, TRUE, head).history

calculateScanPath(hist, reqs, head, dir) ==
    LET sortedRequests == SortAsc(Dedupe(reqs))
        leftRequests   == Reverse(Below(sortedRequests, head))
        rightRequests  == AtOrAbove(sortedRequests, head)
        w0 == MarkStartServed(StartWalk(hist, head), sortedRequests, head)
    IN IF dir = "right"
       THEN LET w1 == ServeEach(w0, rightRequests, TRUE, head)
                w2 == SweepTo(w1, DISK_MAX)
            IN ServeEach(w2, leftRequests, FALSE, head).history
       ELSE LET w1 == ServeEach(w0, leftRequests, FALSE, head)
                w2 == SweepTo(w1, 0)
            IN ServeEach(w2, rightRequests, TRUE, head).history

calculateCScanPath(hist, reqs, head, dir) ==
    LET sortedRequests == SortAsc(Dedupe(reqs))
        leftRequests   == Below(sortedRequests, head)
        rightRequests  == AtOrAbove(sortedRequests, head)
        w0 == MarkStartServed(StartWalk(hist, head), sortedRequests, head)
    IN IF dir = "right"
       THEN LET w1 == ServeEach(w0, rightRequests, TRUE, head)
                w2 == SweepTo(w1, DISK_MAX)
                w3 == WrapTo(w2, 0)
            IN ServeEach(w3, leftRequests, FALSE, head).history
       ELSE LET w1 == ServeEach(w0, Reverse(leftRequests), FALSE, head)
                w2 == SweepTo(w1, 0)
                w3 == WrapTo(w2, DISK_MAX)
            IN ServeEach(w3, Reverse(rightRequests), TRUE, head).history

\* Mutant of calculateLookPath: the sweep to the boundary of SCAN is kept.
calculateLookPath_Sweeps(hist, reqs, head, dir) ==
    calculateScanPath(hist, reqs, head, dir)

calculateLookPath(hist, reqs, head, dir) ==
    LET sortedRequests == SortAsc(Dedupe(reqs))
        leftRequests   == Reverse(Below(sortedRequests, head))
        rightRequests  == AtOrAbove(sortedRequests, head)
        w0 == MarkStartServed(StartWalk(hist, head), sortedRequests, head)
    IN IF dir = "right"
       THEN LET w1 == ServeEach(w0, rightRequests, TRUE, head)
            IN ServeEach(w1, leftRequests, FALSE, head).history
       ELSE LET w1 == ServeEach(w0, leftRequests, FALSE, head)
            IN ServeEach(w1, rightRequests, TRUE, head).history

\* Mutant of JumpToLast: the `if (currentHead !== startHead)` is missing, so
\* the request the jump lands on is always served and recorded.
JumpToLast_Always(w, lastReq, head) == ServeRequest(w, lastReq)

\* C-LOOK, direction left, the jump to the last (highest) right request:
\* the seek is charged and the head moved also when that request is
\* startHead, but then it is not served and no Step is pushed.
JumpToLast(w, lastReq, head) ==
    LET seek == w.totalSeek + Abs(lastReq - w.currentHead)
    IN IF lastReq # head
       THEN LET srv   == w.served \cup {lastReq}
                order == Append(w.servedOrder, lastReq)
            IN [currentHead |-> lastReq, totalSeek |-> seek, served |-> srv,
                servedOrder |-> order,
                history |-> addHistoryStep(w.history, lastReq, seek,
                                           srv, order)]
       ELSE [w EXCEPT !.totalSeek = seek, !.currentHead = lastReq]

\* Mutant of calculateCLookPath: the direction test is inverted, so the run
\* starts towards the wrong side.
calculateCLookPath_Flipped(hist, reqs, head, dir) ==
    calculateLookPath(hist, reqs, head,
                      IF dir = "right" THEN "left" ELSE "right")

\* Mutant of calculateCLookPath: the head goes by the two boundaries, as in
\* C-SCAN.
calculateCLookPath_ViaEdge(hist, reqs, head, dir) ==
    calculateCScanPath(hist, reqs, head, dir)

calculateCLookPath(hist, reqs, head, dir) ==
    LET sortedRequests == SortAsc(Dedupe(reqs))
        leftRequests   == Below(sortedRequests, head)
        rightRequests  == AtOrAbove(sortedRequests, head)
        w0 == MarkStartServed(StartWalk(hist, head), sortedRequests, head)
    IN IF dir = "right"
       THEN LET w1 == ServeEach(w0, rightRequests, TRUE, head)
            IN IF Len(leftRequests) > 0
               THEN LET w2 == ServeRequest(w1, leftRequests[1])
                    IN ServeEach(w2, Tail(leftRequests), FALSE, head).history
               ELSE w1.history
       ELSE LET w1 == ServeEach(w0, Reverse(leftRequests), FALSE, head)
            IN IF Len(rightRequests) > 0
               THEN LET n  == Len(rightRequests)
                        w2 == JumpToLast(w1, rightRequests[n], head)
                    IN ServeEach(w2, Reverse(SubSeq(rightRequests, 1, n - 1)),
                                 TRUE, head).history
               ELSE w1.history

\* window.originalRequestSet as calculateSimulationHistory sets it; the
\* sequence is the Set's iteration order.
OriginalRequestSetOf(algo, reqs) ==
    IF algo = "fcfs" THEN Dedupe(reqs) ELSE Dedupe(SortAsc(Dedupe(reqs)))

\* Mutant of AppendSentinel: no final Step is pushed.
AppendSentinel_Omitted(hist) == hist

\* if (history.length > 0) history.push(history[history.length - 1])
AppendSentinel(hist) ==
    IF Len(hist) > 0 THEN Append(hist, hist[Len(hist)]) ELSE hist

\* Mutant of ClearHistory: window.history is not emptied first.
ClearHistory_Omitted(prev) == prev

\* window.history = []
ClearHistory(prev) == <<>>

\* The value of window.history when calculateSimulationHistory returns,
\* prev being its value at the call.
SimulationHistoryAfter(prev, algo, reqs, head, dir) ==
    LET h0 == addHistoryStep(ClearHistory(prev), head, 0, {}, <<>>)
        h1 == CASE algo = "fcfs" ->
                     calculateFcfsPath(h0, reqs, head,
                                       OriginalRequestSetOf(algo, reqs))
                [] algo = "sstf"   -> calculateSstfPath(h0, reqs, head)
                [] algo = "scan"   -> calculateScanPath(h0, reqs, head, dir)
                [] algo = "c-scan" -> calculateCScanPath(h0, reqs, head, dir)
                [] algo = "look"   -> calculateLookPath(h0, reqs, head, dir)
                [] algo = "c-look" -> calculateCLookPath(h0, reqs, head, dir)
                [] OTHER -> h0
    IN AppendSentinel(h1)

\* The same for a call made while window.history is empty.
calculateSimulationHistory(algo, reqs, head, dir) ==
    SimulationHistoryAfter(<<>>, algo, reqs, head, dir)

\* ------------------------------------------------ Part 2: pure totals ----
\* Mutant of diskMax: the number of cylinders instead of the last address.
diskMax_Cylinders == DISK_MAX + 1

\* const diskMax = window.DISK_MAX || 199
diskMax == IF DISK_MAX # 0 THEN DISK_MAX ELSE 199

\* case 'fcfs': every entry of the raw list is visited and charged
RECURSIVE StatsFcfs(_, _, _)
StatsFcfs(list, headCopy, totalSeek) ==
    IF list = <<>> THEN totalSeek
    ELSE StatsFcfs(Tail(list), Head(list),
                   totalSeek + Abs(Head(list) - headCopy))

\* case 'sstf': the while loop over `remaining`
RECURSIVE StatsSstf(_, _, _)
StatsSstf(remaining, headCopy, totalSeek) ==
    IF remaining = <<>> THEN totalSeek
    ELSE LET best == NearestRequest(remaining, headCopy)
         IN StatsSstf(Delete(remaining, best.nextReq), best.nextReq,
                      totalSeek + best.shortestDist)

\* case 'scan'
StatsScan(reqCopy, headCopy, dirCopy) ==
    LET sorted == SortAsc(reqCopy)
        left   == Below(sorted, headCopy)
        right  == AtOrAbove(sorted, headCopy)
    IN IF dirCopy = "right"
       THEN LET far == Len(right) > 0
                t1  == IF far THEN Abs(right[Len(right)] - headCopy) ELSE 0
                h1  == IF far THEN right[Len(right)] ELSE headCopy
                t2  == t1 + Abs(diskMax - h1)
            IN IF Len(left) > 0 THEN t2 + Abs(left[1] - diskMax) ELSE t2
       ELSE LET near == Len(left) > 0
                t1   == IF near THEN Abs(left[1] - headCopy) ELSE 0
                h1   == IF near THEN left[1] ELSE headCopy
                t2   == t1 + Abs(0 - h1)
            IN IF Len(right) > 0 THEN t2 + Abs(right[Len(right)] - 0) ELSE t2

\* case 'c-scan'
StatsCScan(reqCopy, headCopy, dirCopy) ==
    LET sorted  == SortAsc(reqCopy)
        c_left  == Below(sorted, headCopy)
        c_right == AtOrAbove(sorted, headCopy)
    IN IF dirCopy = "right"
       THEN LET far == Len(c_right) > 0
                t1  == IF far THEN Abs(c_right[Len(c_right)] - headCopy) ELSE 0
                h1  == IF far THEN c_right[Len(c_right)] ELSE headCopy
                t2  == t1 + Abs(diskMax - h1) + diskMax
            IN IF Len(c_left) > 0
               THEN t2 + Abs(c_left[Len(c_left)] - 0) ELSE t2
       ELSE LET near == Len(c_left) > 0
                t1   == IF near THEN Abs(c_left[1] - headCopy) ELSE 0
                h1   == IF near THEN c_left[1] ELSE headCopy
                t2   == t1 + Abs(0 - h1) + diskMax
            IN IF Len(c_right) > 0
               THEN t2 + Abs(c_right[1] - diskMax) ELSE t2

\* case 'look'
StatsLook(reqCopy, headCopy, dirCopy) ==
    LET sorted  == SortAsc(reqCopy)
        l_left  == Below(sorted, headCopy)
        l_right == AtOrAbove(sorted, headCopy)
    IN IF dirCopy = "right"
       THEN LET far == Len(l_right) > 0
                t1  == IF far THEN Abs(l_right[Len(l_right)] - headCopy) ELSE 0
                h1  == IF far THEN l_right[Len(l_right)] ELSE headCopy
            IN IF Len(l_left) > 0 THEN t1 + Abs(l_left[1] - h1) ELSE t1
       ELSE LET near == Len(l_left) > 0
                t1   == IF near THEN Abs(l_left[1] - headCopy) ELSE 0
                h1   == IF near THEN l_left[1] ELSE headCopy
            IN IF Len(l_right) > 0
               THEN t1 + Abs(l_right[Len(l_right)] - h1) ELSE t1

\* case 'c-look'
StatsCLook(reqCopy, headCopy, dirCopy) ==
    LET sorted   == SortAsc(reqCopy)
        cl_left  == Below(sorted, headCopy)
        cl_right == AtOrAbove(sorted, headCopy)
    IN IF dirCopy = "right"
       THEN LET far == Len(cl_right) > 0
                t1  == IF far THEN Abs(cl_right[Len(cl_right)] - headCopy)
                       ELSE 0
                h1  == IF far THEN cl_right[Len(cl_right)] ELSE headCopy
            IN IF Len(cl_left) > 0
               THEN t1 + Abs(cl_left[1] - h1)
                       + Abs(cl_left[Len(cl_left)] - cl_left[1])
               ELSE t1
       ELSE LET near == Len(cl_left) > 0
                t1   == IF near THEN Abs(cl_left[1] - headCopy) ELSE 0
                h1   == IF near THEN cl_left[1] ELSE headCopy
            IN IF Len(cl_right) > 0
               THEN t1 + Abs(cl_right[Len(cl_right)] - h1)
                       + Abs(cl_right[1] - cl_right[Len(cl_right)])
               ELSE t1

\* Mutant of RequestsAfterStats: reqCopy is the caller's array itself, which
\* the four sweeping cases then sort in place.
RequestsAfterStats_Aliased(algo, reqs) ==
    IF algo \in {"scan", "c-scan", "look", "c-look"} THEN SortAsc(reqs)
    ELSE reqs

\* The caller's request array when getAlgorithmStats returns: reqCopy is a
\* new array ([...requests] or [...new Set(requests)]), so reqCopy.sort
\* does not reach it.
RequestsAfterStats(algo, reqs) == reqs

\* The number getAlgorithmStats returns.
getAlgorithmStats(algo, reqs, head, dir) ==
    LET reqCopy == IF algo = "fcfs" THEN reqs ELSE Dedupe(reqs)
    IN CASE algo = "fcfs"   -> StatsFcfs(reqCopy, head, 0)
         [] algo = "sstf"   -> StatsSstf(Delete(reqCopy, head), head, 0)
         [] algo = "scan"   -> StatsScan(reqCopy, head, dir)
         [] algo = "c-scan" -> StatsCScan(reqCopy, head, dir)
         [] algo = "look"   -> StatsLook(reqCopy, head, dir)
         [] algo = "c-look" -> StatsCLook(reqCopy, head, dir)
         [] OTHER -> 0

\* ------------------------------------------------------- the controls ----
\* What updateButtonStates writes to the disabled attributes; `inputs` stands
\* for reqInput, headInput, dirSelect, algorithmSelect and randomCountInput,
\* which get the same value.
updateButtonStates(hist, index, playing) ==
    LET atStart    == index = 0
        atEnd      == index >= Len(hist) - 1
        hasHistory == Len(hist) > 1
    IN [btnStart    |-> playing \/ (hasHistory /\ atEnd),
        btnPause    |-> ~playing,
        btnReset    |-> playing,
        btnStepFwd  |-> playing \/ (hasHistory /\ atEnd),
        btnStepBack |-> playing \/ ~hasHistory \/ atStart,
        inputs      |-> playing \/ hasHistory,
        btnRandom   |-> playing \/ hasHistory,
        btnCompare  |-> playing \/ hasHistory,
        timelineScrubber |-> ~hasHistory]

\* The application state outside the engine when init() returns.
UiStartUp ==
    /\ isPlaying = FALSE
    /\ timerId = 0
    /\ pendingTimeouts = {}
    /\ disabled = updateButtonStates(<<>>, 0, FALSE)
    /\ errorMessageBox = ""
    /\ compareModalTableBody = <<>>

\* ------------------------------------------------------ state machine ----
\* app.js start-up state; the arguments are whatever the caller will pass.
Init ==
    /\ algorithm \in Algorithms
    /\ requests \in RequestLists
    /\ startHead \in Positions
    /\ direction \in Directions
    /\ history = <<>>
    /\ currentStateIndex = 0
    /\ originalRequestSet = <<>>
    /\ statsResult = <<>>
    /\ UiStartUp

\* A call calculateSimulationHistory(algorithm, requests, startHead, direction)
CallCalculateSimulationHistory ==
    /\ history' = SimulationHistoryAfter(history, algorithm, requests,
                                         startHead, direction)
    /\ currentStateIndex' = 0
    /\ originalRequestSet' = OriginalRequestSetOf(algorithm, requests)
    /\ UNCHANGED <<algorithm, requests, startHead, direction, statsResult>>
    /\ UNCHANGED uiVars

\* A call getAlgorithmStats(algorithm, requests, startHead, direction)
CallGetAlgorithmStats ==
    /\ statsResult' = <<getAlgorithmStats(algorithm, requests, startHead,
                                          direction)>>
    /\ requests' = RequestsAfterStats(algorithm, requests)
    /\ UNCHANGED <<algorithm, startHead, direction, history,
                   currentStateIndex, originalRequestSet>>
    /\ UNCHANGED uiVars

Next ==
    \/ CallCalculateSimulationHistory
    \/ CallGetAlgorithmStats

Spec == Init /\ [][Next]_vars

\* The request queue of the worked example, in arrival order, and the
\* request lists of the scenario runs: its prefixes and the prefixes of its
\* ascending order.
ScenarioRequests == <<98, 183, 37, 122, 14, 124, 65, 67>>
ScenarioLists ==
    {SubSeq(ScenarioRequests, 1, n) : n \in 1..Len(ScenarioRequests)}
        \cup {SubSeq(SortAsc(ScenarioRequests), 1, n) :
                 n \in 1..Len(ScenarioRequests)}

\* The start-up state with the worked example typed in (head at 53).
ScenarioInit ==
    /\ algorithm \in Algorithms
    /\ requests \in ScenarioLists
    /\ startHead \in {53}
    /\ direction \in Directions
    /\ history = <<>>
    /\ currentStateIndex = 0
    /\ originalRequestSet = <<>>
    /\ statsResult = <<>>
    /\ UiStartUp

ScenarioSpec == ScenarioInit /\ [][Next]_vars

\* Arguments a caller may pass to the two engine functions, among them
\* those the documented preconditions exclude: an algorithm token the
\* switch has no case for, a direction other than 'left' and 'right', an
\* empty request list.
AnyAlgorithms == Algorithms \cup {"elevator"}
AnyDirections == Directions \cup {"up"}
ShortRequestLists == UNION {[1..n -> Positions] : n \in 0..UiMaxLen}

ArgumentInit ==
    /\ algorithm \in AnyAlgorithms
    /\ requests \in ShortRequestLists
    /\ startHead \in Positions
    /\ direction \in AnyDirections
    /\ history = <<>>
    /\ currentStateIndex = 0
    /\ originalRequestSet = <<>>
    /\ statsResult = <<>>
    /\ UiStartUp

ArgumentSpec == ArgumentInit /\ [][Next]_vars

\* The state an earlier run has left behind when the engine is called with
\* other arguments: the FCFS or C-SCAN run over the first requests of the
\* worked example from head 53, stepped to one of its later Steps.
RerunInit ==
    /\ algorithm \in Algorithms
    /\ requests \in ShortRequestLists
    /\ startHead \in Positions
    /\ direction \in Directions
    /\ \E a \in {"fcfs", "c-scan"}, d \in {"right"} :
          /\ history = calculateSimulationHistory(
                           a, SubSeq(ScenarioRequests, 1, 3), 53, d)
          /\ originalRequestSet
                 = OriginalRequestSetOf(a, SubSeq(ScenarioRequests, 1, 3))
    /\ currentStateIndex \in 1..(Len(history) - 1)
    /\ statsResult = <<>>
    /\ UiStartUp

RerunSpec == RerunInit /\ [][Next]_vars

\* ------------------------------------------------------ the input form ----
\* What parseInt gives for an entry of the request field or for the head
\* field: an address, or a number the range check rejects.
FieldValues == {0, 1, DISK_MAX, DISK_MAX + 1}

\* The contents of the request field, entry by entry.
RequestFields == UNION {[1..n -> FieldValues] : n \in 0..UiMaxLen}

\* reqStr.split(',').map(s => parseInt(s.trim()))
\*       .filter(n => !isNaN(n) && n >= 0 && n <= window.DISK_MAX)
ValidRequests(field) ==
    SelectSeq(field, LAMBDA n : n >= 0 /\ n <= DISK_MAX)

\* parseInputs: ok is FALSE where the code returns null, and error is the
\* message it shows then.
parseInputs(field, headField, dir, algo) ==
    LET reqs == ValidRequests(field)
    IN IF headField < 0 \/ headField > DISK_MAX
       THEN [ok |-> FALSE,
             error |-> "Invalid Start Head. Must be between 0 and 199."]
       ELSE IF Len(reqs) = 0
       THEN [ok |-> FALSE,
             error |-> "No valid requests. Please enter numbers between 0 and 199."]
       ELSE [ok |-> TRUE, error |-> "",
             requests |-> IF algo = "fcfs" THEN reqs
                          ELSE SortAsc(Dedupe(reqs)),
             startHead |-> headField, direction |-> dir]

\* -------------------------------------------------------- Compare All ----
\* const algos = ['fcfs', 'sstf', 'scan', 'c-scan', 'look', 'c-look']
algos == <<"fcfs", "sstf", "scan", "c-scan", "look", "c-look">>

\* algo.toUpperCase()
toUpperCase(algo) ==
    CASE algo = "fcfs"   -> "FCFS"
      [] algo = "sstf"   -> "SSTF"
      [] algo = "scan"   -> "SCAN"
      [] algo = "c-scan" -> "C-SCAN"
      [] algo = "look"   -> "LOOK"
      [] algo = "c-look" -> "C-LOOK"

\* Mutant of InsertBySeek: an entry goes before the entries of equal seek.
RECURSIVE InsertBySeek_BeforeEqual(_, _)
InsertBySeek_BeforeEqual(sorted, x) ==
    IF sorted = <<>> THEN <<x>>
    ELSE IF x.seek <= Head(sorted).seek THEN <<x>> \o sorted
    ELSE <<Head(sorted)>> \o InsertBySeek_BeforeEqual(Tail(sorted), x)

\* results.sort((a, b) => a.seek - b.seek): Array.prototype.sort is stable,
\* so an entry goes after the entries of equal seek that precede it.
RECURSIVE InsertBySeek(_, _)
InsertBySeek(sorted, x) ==
    IF sorted = <<>> THEN <<x>>
    ELSE IF x.seek < Head(sorted).seek THEN <<x>> \o sorted
    ELSE <<Head(sorted)>> \o InsertBySeek(Tail(sorted), x)

RECURSIVE SortBySeek(_)
SortBySeek(results) ==
    IF results = <<>> THEN <<>>
    ELSE InsertBySeek(SortBySeek(SubSeq(results, 1, Len(results) - 1)),
                      results[Len(results)])

\* The loop over algos: every total is computed from the raw request list.
CompareResults(field, inputs) ==
    [i \in 1..Len(algos) |->
        [name |-> toUpperCase(algos[i]),
         seek |-> getAlgorithmStats(algos[i], ValidRequests(field),
                                    inputs.startHead, inputs.direction)]]

\* results.forEach((res, index) => ...): one table row per entry, the row
\* of index 0 marked best (Sequences count from 1).
CompareRows(results) ==
    [i \in 1..Len(results) |->
        [name |-> results[i].name, seek |-> results[i].seek,
         isBest |-> i = 1]]

\* A click on btnCompare: handleCompareAll.
handleCompareAll ==
    /\ ~disabled.btnCompare
    /\ LET inputs == parseInputs(requests, startHead, direction, algorithm)
       IN IF ~inputs.ok
          THEN /\ errorMessageBox' = inputs.error
               /\ UNCHANGED compareModalTableBody
          ELSE /\ errorMessageBox' = ""
               /\ compareModalTableBody' =
                      CompareRows(SortBySeek(CompareResults(requests, inputs)))
    /\ UNCHANGED <<algorithm, requests, startHead, direction, history,
                   currentStateIndex, originalRequestSet, statsResult,
                   isPlaying, timerId, pendingTimeouts, disabled>>

\* The form as the user may have filled it in when Compare All is pressed:
\* short request fields with entries the parser drops, and longer ones
\* without.
CompareInit ==
    /\ algorithm \in Algorithms
    /\ requests \in RequestFields \cup RequestLists
    /\ startHead \in FieldValues
    /\ direction \in Directions
    /\ history = <<>>
    /\ currentStateIndex = 0
    /\ originalRequestSet = <<>>
    /\ statsResult = <<>>
    /\ UiStartUp

CompareNext == handleCompareAll

CompareSpec == CompareInit /\ [][CompareNext]_vars

\* ------------------------------------------------- the control handlers ----
\* The form fields, and the state the control handlers leave alone.
formVars == <<algorithm, requests, startHead, direction>>
panelVars == <<statsResult, compareModalTableBody>>

\* setTimeout returns an id no pending timeout has and window.timerId does
\* not hold; the least such number stands for it.
NewTimerId(tid, pending) ==
    CHOOSE n \in 1..(Cardinality(pending) + 2) :
        /\ n \notin pending \cup {tid}
        /\ \A m \in 1..(n - 1) : m \in pending \cup {tid}

\* Mutant of clearTimeout: the timeout stays scheduled.
clearTimeout_Omitted(pending, tid) == pending

\* clearTimeout(window.timerId)
clearTimeout(pending, tid) == pending \ {tid}

\* Mutant of animateLoop: a tick schedules the next one without advancing.
animateLoop_NoAdvance(hist, index, playing, tid, pending) ==
    IF ~playing
    THEN [currentStateIndex |-> index, isPlaying |-> playing,
          timerId |-> tid, pendingTimeouts |-> pending]
    ELSE IF index < Len(hist) - 1
    THEN LET id == NewTimerId(tid, pending)
         IN [currentStateIndex |-> index, isPlaying |-> TRUE,
             timerId |-> id, pendingTimeouts |-> pending \cup {id}]
    ELSE [currentStateIndex |-> index, isPlaying |-> FALSE,
          timerId |-> tid, pendingTimeouts |-> pending]

\* Mutant of animateLoop: the bound of the advance is off by one.
animateLoop_OffByOne(hist, index, playing, tid, pending) ==
    IF ~playing
    THEN [currentStateIndex |-> index, isPlaying |-> playing,
          timerId |-> tid, pendingTimeouts |-> pending]
    ELSE IF index <= Len(hist) - 1
    THEN LET id == NewTimerId(tid, pending)
         IN [currentStateIndex |-> index + 1, isPlaying |-> TRUE,
             timerId |-> id, pendingTimeouts |-> pending \cup {id}]
    ELSE [currentStateIndex |-> index, isPlaying |-> FALSE,
          timerId |-> tid, pendingTimeouts |-> pending]

\* animateLoop, as called by handleStart or by a timeout: what it leaves in
\* currentStateIndex, isPlaying, timerId and the pending timeouts.
animateLoop(hist, index, playing, tid, pending) ==
    IF ~playing
    THEN [currentStateIndex |-> index, isPlaying |-> playing,
          timerId |-> tid, pendingTimeouts |-> pending]
    ELSE IF index < Len(hist) - 1
    THEN LET id == NewTimerId(tid, pending)
         IN [currentStateIndex |-> index + 1, isPlaying |-> TRUE,
             timerId |-> id, pendingTimeouts |-> pending \cup {id}]
    ELSE [currentStateIndex |-> index, isPlaying |-> FALSE,
          timerId |-> tid, pendingTimeouts |-> pending]

\* A pending timeout fires and runs animateLoop, which calls updateUI
\* unless it returns at once.
Timeout ==
    \E id \in pendingTimeouts :
        LET a == animateLoop(history, currentStateIndex, isPlaying, timerId,
                             pendingTimeouts \ {id})
        IN /\ currentStateIndex' = a.currentStateIndex
           /\ isPlaying' = a.isPlaying
           /\ timerId' = a.timerId
           /\ pendingTimeouts' = a.pendingTimeouts
           /\ disabled' = IF isPlaying
                          THEN updateButtonStates(history, a.currentStateIndex,
                                                  a.isPlaying)
                          ELSE disabled
           /\ UNCHANGED <<history, originalRequestSet, errorMessageBox>>
           /\ UNCHANGED <<formVars, panelVars>>

\* A click on btnStart: handleStart.
handleStart ==
    /\ ~disabled.btnStart
    /\ IF isPlaying
       THEN UNCHANGED <<history, currentStateIndex, originalRequestSet,
                        isPlaying, timerId, pendingTimeouts, disabled,
                        errorMessageBox>>
       ELSE LET firstRun == Len(history) <= 1
                inputs   == parseInputs(requests, startHead, direction,
                                        algorithm)
            IN IF firstRun /\ ~inputs.ok
               THEN /\ errorMessageBox' = inputs.error
                    /\ UNCHANGED <<history, currentStateIndex,
                                   originalRequestSet, isPlaying, timerId,
                                   pendingTimeouts, disabled>>
               ELSE LET hist  == IF firstRun
                                 THEN SimulationHistoryAfter(
                                          history, algorithm, inputs.requests,
                                          inputs.startHead, inputs.direction)
                                 ELSE history
                        index == IF firstRun THEN 0 ELSE currentStateIndex
                        from  == IF index >= Len(hist) - 1 THEN 0 ELSE index
                        a     == animateLoop(hist, from, TRUE, timerId,
                                             pendingTimeouts)
                    IN /\ errorMessageBox' = ""
                       /\ history' = hist
                       /\ originalRequestSet' =
                              IF firstRun
                              THEN OriginalRequestSetOf(algorithm,
                                                        inputs.requests)
                              ELSE originalRequestSet
                       /\ currentStateIndex' = a.currentStateIndex
                       /\ isPlaying' = a.isPlaying
                       /\ timerId' = a.timerId
                       /\ pendingTimeouts' = a.pendingTimeouts
                       /\ disabled' = updateButtonStates(
                                          hist, a.currentStateIndex,
                                          a.isPlaying)
    /\ UNCHANGED <<formVars, panelVars>>

\* Mutant of handlePause: pausing also discards the run.
handlePause_DiscardsRun ==
    /\ ~disabled.btnPause
    /\ isPlaying
    /\ isPlaying' = FALSE
    /\ pendingTimeouts' = clearTimeout(pendingTimeouts, timerId)
    /\ history' = <<>>
    /\ currentStateIndex' = 0
    /\ originalRequestSet' = <<>>
    /\ disabled' = updateButtonStates(<<>>, 0, FALSE)
    /\ UNCHANGED <<timerId, errorMessageBox>>
    /\ UNCHANGED <<formVars, panelVars>>

\* A click on btnPause: handlePause.
handlePause ==
    /\ ~disabled.btnPause
    /\ IF ~isPlaying
       THEN UNCHANGED <<isPlaying, pendingTimeouts, disabled>>
       ELSE /\ isPlaying' = FALSE
            /\ pendingTimeouts' = clearTimeout(pendingTimeouts, timerId)
            /\ disabled' = updateButtonStates(history, currentStateIndex,
                                              FALSE)
    /\ UNCHANGED <<history, currentStateIndex, originalRequestSet, timerId,
                   errorMessageBox>>
    /\ UNCHANGED <<formVars, panelVars>>

\* Mutant of ResetState: the timeout is not cleared.
ResetState_KeepsTimer ==
    /\ isPlaying' = FALSE
    /\ history' = <<>>
    /\ currentStateIndex' = 0
    /\ originalRequestSet' = <<>>
    /\ disabled' = updateButtonStates(<<>>, 0, FALSE)
    /\ UNCHANGED <<timerId, pendingTimeouts>>

\* What handleReset leaves in the state other than the form.
ResetState ==
    /\ isPlaying' = FALSE
    /\ pendingTimeouts' = clearTimeout(pendingTimeouts, timerId)
    /\ history' = <<>>
    /\ currentStateIndex' = 0
    /\ originalRequestSet' = <<>>
    /\ disabled' = updateButtonStates(<<>>, 0, FALSE)
    /\ UNCHANGED timerId

\* A click on btnReset: handleReset.
handleReset ==
    /\ ~disabled.btnReset
    /\ ResetState
    /\ errorMessageBox' = ""
    /\ UNCHANGED <<formVars, panelVars>>

\* A click on btnStepFwd: handleStepForward.
handleStepForward ==
    /\ ~disabled.btnStepFwd
    /\ IF isPlaying
       THEN UNCHANGED <<history, currentStateIndex, originalRequestSet,
                        disabled, errorMessageBox>>
       ELSE LET firstRun == Len(history) <= 1
                inputs   == parseInputs(requests, startHead, direction,
                                        algorithm)
            IN IF firstRun /\ ~inputs.ok
               THEN /\ errorMessageBox' = inputs.error
                    /\ UNCHANGED <<history, currentStateIndex,
                                   originalRequestSet, disabled>>
               ELSE LET hist  == IF firstRun
                                 THEN SimulationHistoryAfter(
                                          history, algorithm, inputs.requests,
                                          inputs.startHead, inputs.direction)
                                 ELSE history
                        index == IF firstRun THEN 0 ELSE currentStateIndex
                    IN /\ errorMessageBox' = ""
                       /\ history' = hist
                       /\ originalRequestSet' =
                              IF firstRun
                              THEN OriginalRequestSetOf(algorithm,
                                                        inputs.requests)
                              ELSE originalRequestSet
                       /\ IF index < Len(hist) - 1
                          THEN /\ currentStateIndex' = index + 1
                               /\ disabled' = updateButtonStates(
                                                  hist, index + 1, isPlaying)
                          ELSE /\ currentStateIndex' = index
                               /\ UNCHANGED disabled
    /\ UNCHANGED <<isPlaying, timerId, pendingTimeouts>>
    /\ UNCHANGED <<formVars, panelVars>>

\* A click on btnStepBack: handleStepBackward.
handleStepBackward ==
    /\ ~disabled.btnStepBack
    /\ IF isPlaying \/ currentStateIndex = 0
       THEN UNCHANGED <<currentStateIndex, disabled>>
       ELSE /\ currentStateIndex' = currentStateIndex - 1
            /\ disabled' = updateButtonStates(history, currentStateIndex - 1,
                                              isPlaying)
    /\ UNCHANGED <<history, originalRequestSet, isPlaying, timerId,
                   pendingTimeouts, errorMessageBox>>
    /\ UNCHANGED <<formVars, panelVars>>

\* The scrubber is moved to a value of its range, 0..timelineScrubber.max,
\* max being history.length - 1 since the run was computed:
\* handleScrubberInput, which calls handlePause first while playing.
handleScrubberInput ==
    /\ ~disabled.timelineScrubber
    /\ \E value \in 0..(Len(history) - 1) :
          /\ currentStateIndex' = value
          /\ disabled' = updateButtonStates(history, value, FALSE)
    /\ isPlaying' = FALSE
    /\ pendingTimeouts' = IF isPlaying
                          THEN clearTimeout(pendingTimeouts, timerId)
                          ELSE pendingTimeouts
    /\ UNCHANGED <<history, originalRequestSet, timerId, errorMessageBox>>
    /\ UNCHANGED <<formVars, panelVars>>

\* The count field accepts 5 to 50.
MinRandomCount == 5
MaxRandomCount == 50

\* What Math.random may make of the request field for a given count: the
\* lists of that many distinct addresses among the lists of the worked
\* example.
RandomRequests(count) == {list \in ScenarioLists : Len(list) = count}

\* The values of the count field the model tries: one below the accepted
\* range and the least accepted one.
RandomCounts == {MinRandomCount - 1, MinRandomCount}

\* What Math.random may make of the head field.
RandomHeads == {53, DISK_MAX}

\* A click on btnRandom: handleRandomInputs, which resets first.
handleRandomInputs ==
    /\ ~disabled.btnRandom
    /\ IF isPlaying
       THEN UNCHANGED <<history, currentStateIndex, originalRequestSet,
                        isPlaying, timerId, pendingTimeouts, disabled,
                        errorMessageBox, requests, startHead, direction>>
       ELSE /\ ResetState
            /\ \E count \in RandomCounts :
                  IF count < MinRandomCount \/ count > MaxRandomCount
                  THEN /\ errorMessageBox' =
                              "Please enter a count between 5 and 50."
                       /\ UNCHANGED <<requests, startHead, direction>>
                  ELSE /\ errorMessageBox' = ""
                       /\ requests' \in RandomRequests(count)
                       /\ startHead' \in RandomHeads
                       /\ direction' \in Directions
    /\ UNCHANGED <<algorithm, panelVars>>

\* The user types one more entry into the request field, or deletes the
\* last one; the field is enabled.
EditRequests ==
    /\ ~disabled.inputs
    /\ \E field \in RequestFields :
          /\ \/ /\ Len(field) = Len(requests) + 1
                /\ SubSeq(field, 1, Len(requests)) = requests
             \/ /\ requests # <<>>
                /\ field = SubSeq(requests, 1, Len(requests) - 1)
          /\ requests' = field
    /\ UNCHANGED <<algorithm, startHead, direction, history,
                   currentStateIndex, originalRequestSet, isPlaying, timerId,
                   pendingTimeouts, disabled, errorMessageBox, panelVars>>

\* The user changes the head field, the direction or the algorithm.
EditHead ==
    /\ ~disabled.inputs
    /\ startHead' \in FieldValues \ {startHead}
    /\ UNCHANGED <<algorithm, requests, direction, history,
                   currentStateIndex, originalRequestSet, isPlaying, timerId,
                   pendingTimeouts, disabled, errorMessageBox, panelVars>>

EditDirection ==
    /\ ~disabled.inputs
    /\ direction' \in Directions \ {direction}
    /\ UNCHANGED <<algorithm, requests, startHead, history,
                   currentStateIndex, originalRequestSet, isPlaying, timerId,
                   pendingTimeouts, disabled, errorMessageBox, panelVars>>

EditAlgorithm ==
    /\ ~disabled.inputs
    /\ algorithm' \in Algorithms \ {algorithm}
    /\ UNCHANGED <<requests, startHead, direction, history,
                   currentStateIndex, originalRequestSet, isPlaying, timerId,
                   pendingTimeouts, disabled, errorMessageBox, panelVars>>

\* The page after init(), with whatever the form holds.
UiInit ==
    /\ algorithm \in Algorithms
    /\ requests \in RequestFields
    /\ startHead \in FieldValues
    /\ direction \in Directions
    /\ history = <<>>
    /\ currentStateIndex = 0
    /\ originalRequestSet = <<>>
    /\ statsResult = <<>>
    /\ UiStartUp

UiNext ==
    \/ handleStart
    \/ handlePause
    \/ handleReset
    \/ handleStepForward
    \/ handleStepBackward
    \/ handleScrubberInput
    \/ handleRandomInputs
    \/ Timeout
    \/ EditRequests
    \/ EditHead
    \/ EditDirection
    \/ EditAlgorithm

UiSpec == UiInit /\ [][UiNext]_vars

\* handleReset run in whatever state the page is in, playback included,
\* where the disabled btnReset delivers no click.
CallHandleReset ==
    /\ ResetState
    /\ errorMessageBox' = ""
    /\ UNCHANGED <<formVars, panelVars>>

HandlerNext ==
    \/ UiNext
    \/ CallHandleReset

HandlerSpec == UiInit /\ [][HandlerNext]_vars

\* Playback left alone: the user presses Start and then nothing else, and
\* every timeout that setTimeout scheduled fires.
PlaybackNext ==
    \/ handleStart
    \/ Timeout

PlaybackSpec == UiInit /\ [][PlaybackNext]_vars /\ WF_vars(Timeout)

\* ------------------------------------------------------------- claims ----
\* The last Step of the history, and what the properties below read.
FinalStep == history[Len(history)]
RequestValues == Values(requests)
NoDuplicates(seq) == \A i, j \in 1..Len(seq) : seq[i] = seq[j] => i = j
IsPrefix(a, b) == Len(a) <= Len(b) /\ \A i \in 1..Len(a) : a[i] = b[i]
Occurrences(seq, x) == Cardinality({i \in 1..Len(seq) : seq[i] = x})
HeadPath == [i \in 1..Len(history) |-> history[i].head]
\* Distance travelled along the positions start, list[1], ..., list[n]
RECURSIVE Travel(_, _)
Travel(start, list) ==
    IF list = <<>> THEN 0
    ELSE Abs(Head(list) - start) + Travel(Head(list), Tail(list))

\* C1: for a non-empty request list, the seek of the last Step of the run
\* equals the number getAlgorithmStats returns for the same algorithm,
\* requests, startHead and direction.
C1_FinalSeekEqualsStats ==
    (requests # <<>> /\ history # <<>> /\ statsResult # <<>>)
        => FinalStep.seek = statsResult[1]

\* C2: between consecutive Steps the seek grows by exactly the distance the
\* head moved, wrap jumps and the final sentinel Step included.
C2_SeekDeltaIsHeadDistance ==
    \A i \in 1..(Len(history) - 1) :
        history[i + 1].seek - history[i].seek
            = Abs(history[i + 1].head - history[i].head)

\* C2 witness: a C-SCAN run that jumped from DISK_MAX to 0 and then served
\* a request on the far side.
C2_Witness ==
    /\ algorithm = "c-scan"
    /\ \E i \in 1..(Len(history) - 2) :
          /\ history[i].head = DISK_MAX
          /\ history[i + 1].head = 0
          /\ history[i + 2].head \notin {0, DISK_MAX}
          /\ history[i + 2].seek > history[i + 1].seek

\* C3: the first Step has seek 0 and the seek never decreases along the
\* history.
C3_SeekNonDecreasing ==
    history # <<>> =>
        /\ history[1].seek = 0
        /\ \A i, j \in 1..Len(history) :
              i < j => history[i].seek <= history[j].seek

\* C3 witness: a run whose head moved down and later up, the seek growing
\* both times.
C3_Witness ==
    \E i, j \in 1..(Len(history) - 1) :
        /\ i < j
        /\ history[i + 1].head < history[i].head
        /\ history[i + 1].seek > history[i].seek
        /\ history[j + 1].head > history[j].head
        /\ history[j + 1].seek > history[j].seek

\* C4: in every Step servedOrder holds no value twice and is no longer
\* than the number of distinct request values.
C4_ServedOrderDistinct ==
    \A i \in 1..Len(history) :
        /\ NoDuplicates(history[i].servedOrder)
        /\ Len(history[i].servedOrder) <= Cardinality(RequestValues)

\* C5: an FCFS run over a list with repeated values visits the list in its
\* order, charges every visit, and its final servedOrder holds each
\* distinct value exactly once.
C5_FcfsRepeatsServedOnce ==
    (algorithm = "fcfs" /\ history # <<>> /\ ~NoDuplicates(requests)) =>
        /\ HeadPath = <<startHead>> \o requests \o <<requests[Len(requests)]>>
        /\ FinalStep.seek = Travel(startHead, requests)
        /\ \A v \in RequestValues : Occurrences(FinalStep.servedOrder, v) = 1

\* C6: from each Step to the next the served set only gains members and
\* servedOrder is only extended at its end.
C6_ServedOnlyGrows ==
    \A i \in 1..(Len(history) - 1) :
        /\ history[i].served \subseteq history[i + 1].served
        /\ IsPrefix(history[i].servedOrder, history[i + 1].servedOrder)

\* C6 witness: an SSTF run that served three requests one after another.
C6_Witness ==
    /\ algorithm = "sstf"
    /\ history # <<>>
    /\ Len(FinalStep.servedOrder) >= 3
    /\ \E i \in 1..(Len(history) - 1) :
          /\ Len(history[i].servedOrder) = 1
          /\ Len(history[i + 1].servedOrder) = 2

\* C7: in every Step the values of servedOrder are exactly the served set,
\* and every served value is a member of originalRequestSet.
C7_ServedOrderIsServedSet ==
    \A i \in 1..Len(history) :
        /\ Values(history[i].servedOrder) = history[i].served
        /\ history[i].served \subseteq Values(originalRequestSet)

\* C7 witness: a SCAN run with a Step at an edge where no request sits,
\* between two Steps that served requests.
C7_Witness ==
    /\ algorithm = "scan"
    /\ \E i \in 2..(Len(history) - 1) :
          /\ history[i].head \in {0, DISK_MAX}
          /\ history[i].head \notin RequestValues
          /\ history[i].served # {}
          /\ history[i].served = history[i - 1].served
          /\ history[i + 1].served # history[i].served

\* C8: the head of every Step lies in 0..DISK_MAX (the requests and
\* startHead do).
C8_HeadInRange ==
    (startHead \in 0..DISK_MAX /\ RequestValues \subseteq 0..DISK_MAX) =>
        \A i \in 1..Len(history) : history[i].head \in 0..DISK_MAX

\* C8 witness: a C-SCAN run that stood at both edges although no request
\* sits at either.
C8_Witness ==
    /\ algorithm = "c-scan"
    /\ RequestValues \cap {0, DISK_MAX} = {}
    /\ RequestValues # {}
    /\ \E i, j \in 1..Len(history) :
          history[i].head = 0 /\ history[j].head = DISK_MAX

\* C9: when the run is complete the served set of the last Step is the set
\* of distinct request values.
C9_AllServedAtEnd ==
    history # <<>> => FinalStep.served = RequestValues

\* C9 witness: a complete C-LOOK run to the left whose startHead is a
\* request, with requests below and above it.
C9_Witness ==
    /\ algorithm = "c-look"
    /\ direction = "left"
    /\ history # <<>>
    /\ startHead \in RequestValues
    /\ \E a, b \in RequestValues : a < startHead /\ startHead < b
    /\ FinalStep.served = RequestValues

\* C10: a run has at least two Steps, starts with the Step (startHead, 0,
\* {}, <<>>) and ends with a Step equal to the one before it.
C10_FirstStepAndSentinel ==
    history # <<>> =>
        /\ Len(history) >= 2
        /\ history[1] = [head |-> startHead, seek |-> 0,
                         served |-> {}, servedOrder |-> <<>>]
        /\ history[Len(history)] = history[Len(history) - 1]

\* C10 witness: a run with Steps between the first one and the sentinel,
\* the last of which moved the head and served a request.
C10_Witness ==
    /\ Len(history) >= 4
    /\ history[Len(history)] = history[Len(history) - 1]
    /\ history[Len(history) - 1].seek > history[Len(history) - 2].seek
    /\ history[Len(history) - 1].served # history[Len(history) - 2].served

\* C11: for every algorithm but FCFS, when startHead is one of the
\* requests the second Step is (startHead, 0, {startHead}, <<startHead>>),
\* right after the initial Step and before any move, and startHead occurs
\* exactly once in the final servedOrder.
C11_StartRequestServedFirst ==
    (algorithm # "fcfs" /\ history # <<>> /\ startHead \in RequestValues) =>
        /\ history[1].head = startHead
        /\ history[1].servedOrder = <<>>
        /\ history[2] = [head |-> startHead, seek |-> 0,
                         served |-> {startHead},
                         servedOrder |-> <<startHead>>]
        /\ Occurrences(FinalStep.servedOrder, startHead) = 1

\* C11 witness: a SCAN run to the right whose startHead is a request, with
\* further requests above it, so the right partition starts with startHead.
C11_Witness ==
    /\ algorithm = "scan"
    /\ direction = "right"
    /\ history # <<>>
    /\ startHead \in RequestValues
    /\ \E b \in RequestValues : b > startHead
    /\ history[2].servedOrder = <<startHead>>
    /\ Len(FinalStep.servedOrder) >= 2

\* The boundary the initial direction leads to, and the opposite one.
InitialEdge == IF direction = "right" THEN DISK_MAX ELSE 0
OppositeEdge == IF direction = "right" THEN 0 ELSE DISK_MAX
\* The requests lying in the initial direction from startHead (a request
\* at startHead with them), and the others.
NearSide ==
    IF direction = "right" THEN {r \in RequestValues : r >= startHead}
    ELSE {r \in RequestValues : r <= startHead}
FarSide == RequestValues \ NearSide
\* seq[from..to] is in order of strictly increasing distance from `point`.
ByDistanceFrom(seq, from, to, point) ==
    \A i, j \in from..to :
        i < j => Abs(seq[i] - point) < Abs(seq[j] - point)

\* C12: in a SCAN run some Step stands at the boundary of the initial
\* direction with every request of that side served and none of the other
\* side; the final servedOrder is the initial side by increasing distance
\* from startHead, then the other side by increasing distance from that
\* boundary.
C12_ScanSweepsToEdge ==
    (algorithm = "scan" /\ history # <<>>) =>
        /\ \E k \in 1..Len(history) :
              /\ history[k].head = InitialEdge
              /\ history[k].served = NearSide
        /\ LET order == FinalStep.servedOrder
               n     == Cardinality(NearSide)
           IN /\ Len(order) = Cardinality(RequestValues)
              /\ {order[i] : i \in 1..n} = NearSide
              /\ ByDistanceFrom(order, 1, n, startHead)
              /\ ByDistanceFrom(order, n + 1, Len(order), InitialEdge)

\* C12 witness: a SCAN run with requests on the initial side only, none of
\* them at the boundary, whose head still went to the boundary.
C12_Witness ==
    /\ algorithm = "scan"
    /\ history # <<>>
    /\ Cardinality(NearSide) >= 2
    /\ FarSide = {}
    /\ InitialEdge \notin RequestValues
    /\ startHead # InitialEdge
    /\ FinalStep.head = InitialEdge

\* C12 second case, reached as well: requests on both sides, the boundary
\* Step between them.
C12_BothSides ==
    /\ algorithm = "scan"
    /\ history # <<>>
    /\ FarSide # {}
    /\ InitialEdge \notin RequestValues
    /\ \E k \in 2..(Len(history) - 1) :
          /\ history[k].head = InitialEdge
          /\ history[k].served = NearSide
          /\ history[k + 1].served # NearSide

\* C13: in a C-SCAN run the Step at the boundary of the initial direction,
\* with that side served, is followed by a Step at the opposite boundary
\* whose seek is DISK_MAX larger and which serves nothing; after it the head
\* only moves in the original direction, serving the far side in that order.
C13_CScanWrapsToOppositeEdge ==
    (algorithm = "c-scan" /\ history # <<>>) =>
        \E k \in 1..(Len(history) - 1) :
            /\ history[k].head = InitialEdge
            /\ history[k].served = NearSide
            /\ history[k + 1].head = OppositeEdge
            /\ history[k + 1].seek = history[k].seek + DISK_MAX
            /\ history[k + 1].served = history[k].served
            /\ history[k + 1].servedOrder = history[k].servedOrder
            /\ \A i, j \in (k + 1)..Len(history) :
                  i < j => IF direction = "right"
                           THEN history[i].head <= history[j].head
                           ELSE history[i].head >= history[j].head
            /\ FinalStep.served = RequestValues
            /\ ByDistanceFrom(FinalStep.servedOrder, Cardinality(NearSide) + 1,
                              Len(FinalStep.servedOrder), OppositeEdge)

\* C13 witness: a C-SCAN run with no request on the far side and none at
\* either boundary, which still ends on the wrap Step at the opposite
\* boundary.
C13_Witness ==
    /\ algorithm = "c-scan"
    /\ Len(history) >= 5
    /\ FarSide = {}
    /\ NearSide # {}
    /\ RequestValues \cap {0, DISK_MAX} = {}
    /\ history[Len(history) - 2].head = InitialEdge
    /\ history[Len(history) - 1].head = OppositeEdge
    /\ history[Len(history) - 1].seek
           = history[Len(history) - 2].seek + DISK_MAX

\* C13 second case, reached as well: the wrap Step is followed by far-side
\* requests served in the original direction.
C13_FarSideServed ==
    /\ algorithm = "c-scan"
    /\ Cardinality(FarSide) >= 2
    /\ \E k \in 1..(Len(history) - 3) :
          /\ history[k].head = InitialEdge
          /\ history[k + 1].head = OppositeEdge
          /\ history[k + 2].head \in FarSide
          /\ history[k + 3].head \in FarSide
          /\ history[k + 3].head # history[k + 2].head

\* The heads of Steps from..to never decrease, or never increase.
OneWay(from, to) ==
    \/ \A i, j \in from..to : i < j => history[i].head <= history[j].head
    \/ \A i, j \in from..to : i < j => history[i].head >= history[j].head

\* C14: in a LOOK run over a non-empty request list every Step after the
\* initial one has its head on a request value (so none stands at 0 or
\* DISK_MAX unless a request sits there, and none lies beyond the extreme
\* requests), and the head path turns at most once.
C14_LookStaysOnRequests ==
    (algorithm = "look" /\ history # <<>> /\ requests # <<>>) =>
        /\ \A i \in 2..Len(history) : history[i].head \in RequestValues
        /\ \E m \in 1..Len(history) : OneWay(1, m) /\ OneWay(m, Len(history))

\* C14 witness: a LOOK run with requests on both sides and none at the
\* boundary of the initial direction: the head turned at the last request
\* of the initial side and never stood at that boundary.
C14_Witness ==
    /\ algorithm = "look"
    /\ history # <<>>
    /\ NearSide \ {startHead} # {}
    /\ FarSide # {}
    /\ InitialEdge \notin RequestValues
    /\ \A i \in 1..Len(history) : history[i].head # InitialEdge
    /\ ~OneWay(1, Len(history))

\* C14 second case, reached as well: the run ends on the last request of
\* the far side, short of the opposite boundary.
C14_EndsShortOfEdge ==
    /\ algorithm = "look"
    /\ history # <<>>
    /\ FarSide # {}
    /\ OppositeEdge \notin RequestValues
    /\ FinalStep.head \in FarSide

\* Largest and smallest member of a non-empty set of numbers.
Max(S) == CHOOSE x \in S : \A y \in S : y <= x
Min(S) == CHOOSE x \in S : \A y \in S : x <= y
\* The last request of the initial side and the first one served on the
\* far side by a circular run (both sides non-empty).
LastNearSide == IF direction = "right" THEN Max(NearSide) ELSE Min(NearSide)
FirstFarSide == IF direction = "right" THEN Min(FarSide) ELSE Max(FarSide)

\* C15: in a C-LOOK run with requests below and above startHead, the Step
\* after the one that serves the last near-side request stands on the
\* far-side request farthest back (lowest when moving right, highest when
\* moving left), its seek larger by the distance between the two; from
\* there on the head moves in the original direction over the far side.
C15_CLookJumpsToFarRequest ==
    (/\ algorithm = "c-look"
     /\ history # <<>>
     /\ \E a, b \in RequestValues : a < startHead /\ startHead < b) =>
        \E k \in 2..(Len(history) - 1) :
            /\ history[k].head = LastNearSide
            /\ history[k].served = NearSide
            /\ history[k + 1].head = FirstFarSide
            /\ history[k + 1].seek
                   = history[k].seek + Abs(FirstFarSide - LastNearSide)
            /\ history[k + 1].served = NearSide \cup {FirstFarSide}
            /\ \A i \in (k + 1)..Len(history) : history[i].head \in FarSide
            /\ \A i, j \in (k + 1)..Len(history) :
                  i < j => IF direction = "right"
                           THEN history[i].head <= history[j].head
                           ELSE history[i].head >= history[j].head
            /\ FinalStep.served = RequestValues

\* C15 witness: a C-LOOK run with requests on both sides and none at the
\* boundary of the initial direction, which went from the last near-side
\* request straight to a far-side request.
C15_Witness ==
    /\ algorithm = "c-look"
    /\ history # <<>>
    /\ \E a, b \in RequestValues : a < startHead /\ startHead < b
    /\ InitialEdge \notin RequestValues
    /\ \A i \in 1..Len(history) : history[i].head # InitialEdge
    /\ \E k \in 2..(Len(history) - 1) :
          history[k].head = LastNearSide /\ history[k + 1].head = FirstFarSide

\* C15 second case, reached as well: several far-side requests, served in
\* the original direction after the jump.
C15_SeveralFarRequests ==
    /\ algorithm = "c-look"
    /\ history # <<>>
    /\ \E a \in RequestValues : a < startHead
    /\ \E b \in RequestValues : b > startHead
    /\ Cardinality(FarSide) >= 2
    /\ FinalStep.head \in FarSide
    /\ FinalStep.head # FirstFarSide

\* C16: in a C-LOOK run to the left whose startHead is a request with no
\* request above it (so the wrap lands on startHead), startHead is served
\* once only, no Step is pushed for the wrap, and the final seek is
\* startHead minus the lowest request.
C16_CLookLeftWrapToStart ==
    (/\ algorithm = "c-look"
     /\ direction = "left"
     /\ history # <<>>
     /\ startHead \in RequestValues
     /\ \A r \in RequestValues : r <= startHead) =>
        /\ Occurrences(FinalStep.servedOrder, startHead) = 1
        /\ Len(history) = Cardinality(RequestValues) + 2
        /\ \A i \in 3..Len(history) :
              history[i].head = startHead => RequestValues = {startHead}
        /\ FinalStep.seek = startHead - Min(RequestValues)

\* C16 witness: such a run with requests below startHead, ending on the
\* lowest request after a positive seek.
C16_Witness ==
    /\ algorithm = "c-look"
    /\ direction = "left"
    /\ history # <<>>
    /\ startHead \in RequestValues
    /\ \A r \in RequestValues : r <= startHead
    /\ Cardinality(RequestValues) >= 3
    /\ FinalStep.head = Min(RequestValues)
    /\ FinalStep.seek > 0

\* The final seek of the run an algorithm generates for the current
\* requests, startHead and direction, and the other algorithm of the pair
\* SCAN / LOOK.
RunSeek(algo) ==
    LET h == calculateSimulationHistory(algo, requests, startHead, direction)
    IN h[Len(h)].seek
ScanLookPeer == IF algorithm = "scan" THEN "look" ELSE "scan"

\* C17: when both 0 and DISK_MAX are requests, SCAN and LOOK have the same
\* total seek for every startHead and direction: the final seek of the run
\* of one equals that of the run of the other, and so do the values of
\* getAlgorithmStats.
C17_ScanEqualsLookAtEdges ==
    (/\ algorithm \in {"scan", "look"}
     /\ {0, DISK_MAX} \subseteq RequestValues
     /\ history # <<>>
     /\ statsResult # <<>>) =>
        /\ FinalStep.seek = RunSeek(ScanLookPeer)
        /\ statsResult[1] = getAlgorithmStats(ScanLookPeer, requests,
                                               startHead, direction)

\* C17 witness: a SCAN run and total for requests that include 0, DISK_MAX
\* and others, from a startHead strictly between requests.
C17_Witness ==
    /\ algorithm = "scan"
    /\ {0, DISK_MAX} \subseteq RequestValues
    /\ Cardinality(RequestValues) >= 3
    /\ startHead \notin {0, DISK_MAX}
    /\ history # <<>>
    /\ statsResult # <<>>
    /\ \E i \in 1..Len(history) : history[i].head = InitialEdge
    /\ FinalStep.head = OppositeEdge

\* The run the non-circular variant (SCAN for C-SCAN, LOOK for C-LOOK)
\* generates for the current requests, startHead and direction.
NonCircularRun ==
    calculateSimulationHistory(IF algorithm = "c-scan" THEN "scan" ELSE "look",
                               requests, startHead, direction)
\* Index of the Step that ends the first directional phase of that run: for
\* SCAN the first Step at the boundary of the initial direction with the
\* initial side served, for LOOK the first Step with the initial side
\* served.
FirstPhaseEnd ==
    LET run == NonCircularRun
    IN Min({i \in 1..Len(run) :
               /\ run[i].served = NearSide
               /\ algorithm = "c-scan" => run[i].head = InitialEdge})

\* C18: the C-SCAN run equals the SCAN run, and the C-LOOK run the LOOK run,
\* Step for Step up to and including the Step that ends the first
\* directional phase; the C-SCAN and SCAN runs differ in the very next Step.
C18_CircularSharesFirstPhase ==
    (algorithm \in {"c-scan", "c-look"} /\ history # <<>>) =>
        LET run == NonCircularRun
            k   == FirstPhaseEnd
        IN /\ k <= Len(history)
           /\ SubSeq(history, 1, k) = SubSeq(run, 1, k)
           /\ algorithm = "c-scan" => history[k + 1] # run[k + 1]

\* C18 witness: a C-LOOK run with requests on both sides, several of them
\* on the far side, that shares the first phase with the LOOK run and
\* differs from it afterwards.
C18_Witness ==
    /\ algorithm = "c-look"
    /\ history # <<>>
    /\ NearSide \ {startHead} # {}
    /\ Cardinality(FarSide) >= 2
    /\ FirstPhaseEnd >= 2
    /\ SubSeq(history, 1, FirstPhaseEnd)
           = SubSeq(NonCircularRun, 1, FirstPhaseEnd)
    /\ history[FirstPhaseEnd + 1] # NonCircularRun[FirstPhaseEnd + 1]

\* C18 second case, reached as well: a C-SCAN run with requests on both
\* sides, equal to the SCAN run up to the boundary Step.
C18_CScanCase ==
    /\ algorithm = "c-scan"
    /\ history # <<>>
    /\ NearSide \ {startHead} # {}
    /\ FarSide # {}
    /\ FirstPhaseEnd >= 3
    /\ history[FirstPhaseEnd].head = InitialEdge
    /\ history[FirstPhaseEnd] = NonCircularRun[FirstPhaseEnd]

\* C19: for requests 98,183,37,122,14,124,65,67, startHead 53 and FCFS the
\* run visits the eight requests in the given order and the total seek is
\* 640, as the final seek of the run and as the value of getAlgorithmStats.
C19_FcfsScenario ==
    (/\ algorithm = "fcfs"
     /\ requests = ScenarioRequests
     /\ startHead = 53
     /\ history # <<>>
     /\ statsResult # <<>>) =>
        /\ HeadPath = <<53>> \o ScenarioRequests \o <<67>>
        /\ FinalStep.servedOrder = ScenarioRequests
        /\ FinalStep.seek = 640
        /\ statsResult[1] = 640

\* C19 witness: the FCFS run and total of the scenario have been computed.
C19_Witness ==
    /\ algorithm = "fcfs"
    /\ requests = ScenarioRequests
    /\ startHead = 53
    /\ Len(history) = 10
    /\ FinalStep.head = 67
    /\ statsResult # <<>>

\* C20 as stated: for the same requests and startHead, SSTF serves in the
\* order 65,67,37,14,98,122,124,183 and the total seek is 319.
C20_SstfScenarioAsStated ==
    (/\ algorithm = "sstf"
     /\ requests = ScenarioRequests
     /\ startHead = 53
     /\ history # <<>>
     /\ statsResult # <<>>) =>
        /\ FinalStep.servedOrder = <<65, 67, 37, 14, 98, 122, 124, 183>>
        /\ FinalStep.seek = 319
        /\ statsResult[1] = 319

\* C20 amended: for the same requests and startHead, SSTF serves in the
\* order 65,67,37,14,98,122,124,183 and the total seek is 236
\* (12+2+30+23+84+24+2+59), as the final seek of the run and as the value
\* of getAlgorithmStats.
C20_SstfScenario ==
    (/\ algorithm = "sstf"
     /\ requests = ScenarioRequests
     /\ startHead = 53
     /\ history # <<>>
     /\ statsResult # <<>>) =>
        /\ FinalStep.servedOrder = <<65, 67, 37, 14, 98, 122, 124, 183>>
        /\ FinalStep.seek = 236
        /\ statsResult[1] = 236

\* C20 witness: the SSTF run and total of the scenario have been computed.
C20_Witness ==
    /\ algorithm = "sstf"
    /\ requests = ScenarioRequests
    /\ startHead = 53
    /\ Len(history) = 10
    /\ FinalStep.head = 183
    /\ statsResult # <<>>

\* The request list of the worked example in ascending order.
ScenarioSorted == <<14, 37, 65, 67, 98, 122, 124, 183>>

\* C21 as stated: for requests 14,37,65,67,98,122,124,183, startHead 53,
\* direction left and SCAN, the head path of the run (sentinel excluded) is
\* 53,37,14,0,65,67,98,122,124,183 and the total seek is 382.
C21_ScanScenarioAsStated ==
    (/\ algorithm = "scan"
     /\ direction = "left"
     /\ requests = ScenarioSorted
     /\ startHead = 53
     /\ history # <<>>
     /\ statsResult # <<>>) =>
        /\ SubSeq(HeadPath, 1, Len(history) - 1)
               = <<53, 37, 14, 0, 65, 67, 98, 122, 124, 183>>
        /\ FinalStep.seek = 382
        /\ statsResult[1] = 382

\* C21 amended: for the same requests, startHead and direction, the head
\* path of the SCAN run (sentinel excluded) is
\* 53,37,14,0,65,67,98,122,124,183 and the total seek is 236
\* (16+23+14+65+2+31+24+2+59), as the final seek of the run and as the value
\* of getAlgorithmStats.
C21_ScanScenario ==
    (/\ algorithm = "scan"
     /\ direction = "left"
     /\ requests = ScenarioSorted
     /\ startHead = 53
     /\ history # <<>>
     /\ statsResult # <<>>) =>
        /\ SubSeq(HeadPath, 1, Len(history) - 1)
               = <<53, 37, 14, 0, 65, 67, 98, 122, 124, 183>>
        /\ FinalStep.seek = 236
        /\ statsResult[1] = 236

\* C21 witness: the SCAN run to the left and the total of the scenario have
\* been computed, the run passing by address 0.
C21_Witness ==
    /\ algorithm = "scan"
    /\ direction = "left"
    /\ requests = ScenarioSorted
    /\ startHead = 53
    /\ Len(history) = 11
    /\ history[4].head = 0
    /\ FinalStep.head = 183
    /\ statsResult # <<>>

\* The rows of the Compare All table and where an algorithm stands in algos.
Rows == compareModalTableBody
AlgoIndex(name) == CHOOSE i \in 1..Len(algos) : toUpperCase(algos[i]) = name

\* C22: the Compare All table has exactly one row for each of the six
\* algorithms, holding the total getAlgorithmStats gives for it, in order of
\* non-decreasing total; only the first row is marked best, and it has the
\* minimum total; rows of equal total stand in the order fcfs, sstf, scan,
\* c-scan, look, c-look.
C22_CompareAllRanking ==
    Rows # <<>> =>
        /\ Len(Rows) = 6
        /\ \A a \in Algorithms :
              \E i \in 1..Len(Rows) :
                  /\ Rows[i].name = toUpperCase(a)
                  /\ Rows[i].seek = getAlgorithmStats(a, ValidRequests(requests),
                                                      startHead, direction)
                  /\ \A j \in 1..Len(Rows) : Rows[j].name = Rows[i].name => j = i
        /\ \A i, j \in 1..Len(Rows) : i < j => Rows[i].seek <= Rows[j].seek
        /\ \A i \in 1..Len(Rows) : Rows[i].isBest <=> i = 1
        /\ \A i \in 1..Len(Rows) : Rows[1].seek <= Rows[i].seek
        /\ \A i, j \in 1..Len(Rows) :
              (i < j /\ Rows[i].seek = Rows[j].seek)
                  => AlgoIndex(Rows[i].name) < AlgoIndex(Rows[j].name)

\* C22 witness: a table in which the best total is shared by two algorithms
\* and the rows are not in the order of algos.
C22_Witness ==
    /\ Len(Rows) = 6
    /\ Rows[1].seek = Rows[2].seek
    /\ Rows[2].seek < Rows[6].seek
    /\ Rows[1].name # "FCFS"

\* C22 second case, reached as well: a table computed from a request field
\* of which the parser dropped an entry.
C22_DroppedEntry ==
    /\ Len(Rows) = 6
    /\ ValidRequests(requests) # requests
    /\ Rows[1].seek < Rows[6].seek

\* C23: when the algorithm token is unknown, the direction is neither left
\* nor right, or the request list is empty, calculateSimulationHistory
\* produces no run and getAlgorithmStats no total.
C23_RejectsViolatedPrecondition ==
    (\/ algorithm \notin Algorithms
     \/ direction \notin Directions
     \/ requests = <<>>) => (history = <<>> /\ statsResult = <<>>)

\* C24: whatever history, currentStateIndex and originalRequestSet hold
\* before, a call of calculateSimulationHistory leaves exactly the run its
\* four arguments give on an empty history (so no Step of an earlier run
\* remains), currentStateIndex 0, and the originalRequestSet of its
\* arguments.
C24_RunDependsOnArgumentsOnly ==
    [][CallCalculateSimulationHistory =>
          /\ history' = calculateSimulationHistory(algorithm, requests,
                                                   startHead, direction)
          /\ history'[1].head = startHead
          /\ currentStateIndex' = 0
          /\ originalRequestSet' = OriginalRequestSetOf(algorithm, requests)]_vars

\* C24 witness: a call made over the run left by other arguments (which was
\* at a later Step) has put the index back to 0, and no Step of the new run
\* is at an address of the earlier one.
C24_Witness ==
    /\ currentStateIndex = 0
    /\ Len(history) >= 4
    /\ history[1].head = startHead
    /\ \A i \in 1..Len(history) :
          history[i].head \notin Values(SubSeq(ScenarioRequests, 1, 3)) \cup {53}

\* A list with every later repeat of a value removed, and two rearrangements
\* of a list (exchanging the first two entries and moving the first entry
\* to the end) which together generate every permutation.
FirstOccurrences(seq) ==
    {i \in 1..Len(seq) : \A j \in 1..(i - 1) : seq[j] # seq[i]}
WithoutRepeats(seq) ==
    LET F == FirstOccurrences(seq)
    IN [k \in 1..Cardinality(F) |->
           seq[CHOOSE i \in F : Cardinality({j \in F : j <= i}) = k]]
Exchanged(seq) ==
    IF Len(seq) < 2 THEN seq
    ELSE <<seq[2], seq[1]>> \o SubSeq(seq, 3, Len(seq))
Rotated(seq) == IF seq = <<>> THEN seq ELSE Append(Tail(seq), Head(seq))
\* The scheduling algorithms that sort their requests.
Sweeping == {"scan", "c-scan", "look", "c-look"}

\* C25: for every algorithm but FCFS the run and the getAlgorithmStats
\* total of a request list are those of the list with its later repeats
\* removed; for SCAN, C-SCAN, LOOK and C-LOOK they are also those of the
\* list with its first two entries exchanged and of the list rotated by one
\* (hence of every permutation of it).
C25_RepeatsAndOrderIgnored ==
    (algorithm # "fcfs" /\ history # <<>> /\ statsResult # <<>>) =>
        /\ history = calculateSimulationHistory(
                         algorithm, WithoutRepeats(requests), startHead,
                         direction)
        /\ statsResult[1] = getAlgorithmStats(
                                algorithm, WithoutRepeats(requests), startHead,
                                direction)
        /\ algorithm \in Sweeping =>
              \A other \in {Exchanged(requests), Rotated(requests)} :
                  /\ history = calculateSimulationHistory(
                                   algorithm, other, startHead, direction)
                  /\ statsResult[1] = getAlgorithmStats(
                                          algorithm, other, startHead,
                                          direction)

\* C25 witness: the run and total of a sweeping algorithm for a list of
\* three entries, not in ascending order, holding one value twice.
C25_Witness ==
    /\ algorithm \in Sweeping
    /\ history # <<>>
    /\ statsResult # <<>>
    /\ Len(requests) = 3
    /\ Cardinality(RequestValues) = 2
    /\ requests[1] > requests[2]
    /\ Rotated(requests) # requests
    /\ Len(FinalStep.servedOrder) = 2

\* C25 second case, reached as well: an SSTF run over a list with a
\* repeated value.
C25_SstfRepeats ==
    /\ algorithm = "sstf"
    /\ history # <<>>
    /\ statsResult # <<>>
    /\ WithoutRepeats(requests) # requests
    /\ Len(FinalStep.servedOrder) >= 2

\* Where a value first occurs in the request list, the Steps of an SSTF run
\* that are selections of the loop (those after the initial Step and the
\* Step that serves a request at startHead, the sentinel excluded), and the
\* requests not yet served when the selection of Step i is made.
FirstIndex(x) == Min({i \in 1..Len(requests) : requests[i] = x})
Selections ==
    {i \in 2..(Len(history) - 1) :
        ~(i = 2 /\ startHead \in RequestValues)}
Remaining(i) == RequestValues \ history[i - 1].served

\* C26: in an SSTF run every selected request is among the requests not yet
\* served, no such request is nearer to the head than it, and those at the
\* same distance occur later in the request list; there are as many
\* selections as distinct requests other than startHead.
C26_SstfPicksNearestFirstListed ==
    (algorithm = "sstf" /\ history # <<>>) =>
        /\ \A i \in Selections :
              LET from   == history[i - 1].head
                  chosen == history[i].head
              IN /\ chosen \in Remaining(i)
                 /\ history[i].served = history[i - 1].served \cup {chosen}
                 /\ \A r \in Remaining(i) :
                       /\ Abs(chosen - from) <= Abs(r - from)
                       /\ (Abs(chosen - from) = Abs(r - from) /\ r # chosen)
                              => FirstIndex(chosen) < FirstIndex(r)
        /\ Cardinality(Selections) = Cardinality(RequestValues \ {startHead})

\* C26 witness: an SSTF run in which two pending requests were at the same
\* distance from the head and the higher one, listed first, was selected.
C26_Witness ==
    /\ algorithm = "sstf"
    /\ history # <<>>
    /\ \E i \in Selections :
          \E r \in Remaining(i) :
              /\ r < history[i].head
              /\ Abs(r - history[i - 1].head)
                     = Abs(history[i].head - history[i - 1].head)
              /\ FirstIndex(history[i].head) < FirstIndex(r)

\* C27: every Step of a run holds the served set and servedOrder of the
\* moment it was appended: the first Step holds none, and each later Step
\* holds what the Step before it holds, extended by at most the request its
\* own head stands on; nothing served later shows up in it.
C27_StepsKeepTheirSnapshot ==
    history # <<>> =>
        /\ history[1].served = {}
        /\ history[1].servedOrder = <<>>
        /\ \A i \in 2..Len(history) :
              /\ \/ history[i].servedOrder = history[i - 1].servedOrder
                 \/ history[i].servedOrder
                        = Append(history[i - 1].servedOrder, history[i].head)
              /\ \/ history[i].served = history[i - 1].served
                 \/ history[i].served
                        = history[i - 1].served \cup {history[i].head}
              /\ history[i].served \subseteq {history[j].head : j \in 2..i}

\* C27 witness: a run that served three requests or more, whose second and
\* third Steps still hold one and two of them.
C27_Witness ==
    /\ Len(history) >= 5
    /\ Len(FinalStep.servedOrder) >= 3
    /\ Cardinality(history[2].served) = 1
    /\ Len(history[2].servedOrder) = 1
    /\ Cardinality(history[3].served) = 2
    /\ history[3].seek > 0

\* C28: a call of getAlgorithmStats leaves history, currentStateIndex and
\* originalRequestSet as they are and the request list passed to it in its
\* order, so the run the generator gives for the arguments is the same
\* before and after the call.
C28_StatsLeavesStateAlone ==
    [][CallGetAlgorithmStats =>
          /\ UNCHANGED <<history, currentStateIndex, originalRequestSet>>
          /\ requests' = requests
          /\ calculateSimulationHistory(algorithm', requests', startHead',
                                        direction')
                 = calculateSimulationHistory(algorithm, requests, startHead,
                                              direction)]_vars

\* C28 witness: a total has been computed for a sweeping algorithm and a
\* request list that is not in ascending order, while the history still
\* holds the run of other arguments at its later Step.
C28_Witness ==
    /\ algorithm \in Sweeping
    /\ statsResult # <<>>
    /\ Len(requests) >= 2
    /\ requests[1] > requests[2]
    /\ Len(history) >= 4
    /\ history[1].head = 53
    /\ currentStateIndex >= 1
    /\ originalRequestSet # <<>>

\* The request list without the entries equal to startHead, and the final
\* seek of the run the current algorithm generates for it.
WithoutStart == SelectSeq(requests, LAMBDA r : r # startHead)
RunSeekWithoutStart ==
    LET h == calculateSimulationHistory(algorithm, WithoutStart, startHead,
                                        direction)
    IN h[Len(h)].seek

\* C29: for every algorithm but FCFS, when the request list holds startHead
\* and another value, the final seek of the run and the value of
\* getAlgorithmStats are those of the list with startHead removed.
C29_StartRequestCostsNothing ==
    (/\ algorithm # "fcfs"
     /\ startHead \in RequestValues
     /\ RequestValues # {startHead}
     /\ history # <<>>
     /\ statsResult # <<>>) =>
        /\ FinalStep.seek = RunSeekWithoutStart
        /\ statsResult[1] = getAlgorithmStats(algorithm, WithoutStart,
                                               startHead, direction)

\* C30: while the history holds a run, an event either leaves the history
\* and originalRequestSet as they are or is a Reset (pressed, or made by the
\* random-input generator) that empties both; and a history that changes
\* to a run does so from the empty history, by Start or Step Forward.
C30_OnlyResetDiscardsTheRun ==
    [][/\ Len(history) > 1 =>
             \/ UNCHANGED <<history, originalRequestSet>>
             \/ /\ handleReset \/ handleRandomInputs
                /\ history' = <<>>
                /\ originalRequestSet' = <<>>
       /\ (history' # history /\ history' # <<>>) =>
             /\ history = <<>>
             /\ handleStart \/ handleStepForward
             /\ history' = calculateSimulationHistory(
                               algorithm,
                               parseInputs(requests, startHead, direction,
                                           algorithm).requests,
                               startHead, direction)]_vars

\* C30 witness: a run that was played, paused in the middle and stepped
\* back is still the run of the form's inputs.
C30_Witness ==
    /\ Len(history) >= 5
    /\ ~isPlaying
    /\ pendingTimeouts = {}
    /\ timerId # 0
    /\ currentStateIndex > 0
    /\ currentStateIndex < Len(history) - 2
    /\ ~disabled.btnStepBack
    /\ history = calculateSimulationHistory(
                     algorithm,
                     parseInputs(requests, startHead, direction,
                                 algorithm).requests,
                     startHead, direction)
    /\ originalRequestSet # <<>>

\* C31: after any sequence of control events and timeouts, currentStateIndex
\* is 0 when the history is empty and otherwise lies in
\* 0..history.length - 1, so history[currentStateIndex] exists.
C31_IndexWithinHistory ==
    IF history = <<>>
    THEN currentStateIndex = 0
    ELSE /\ currentStateIndex >= 0
         /\ currentStateIndex <= Len(history) - 1
         /\ currentStateIndex + 1 \in DOMAIN history

\* C31 witness: a run of several Steps was played to its last Step by the
\* timer and then stepped back once.
C31_Witness ==
    /\ Len(history) >= 4
    /\ ~isPlaying
    /\ timerId # 0
    /\ pendingTimeouts = {}
    /\ currentStateIndex = Len(history) - 2
    /\ disabled.btnPause
    /\ ~disabled.btnStart

\* C32: once Start has set playback going and only timeouts follow, every
\* tick either advances currentStateIndex by one within the history or, at
\* the last Step, sets isPlaying to false and schedules nothing; and
\* playback always ends that way, at the last Step with no timer pending.
C32_PlaybackTerminates ==
    /\ [][isPlaying =>
             \/ /\ currentStateIndex < Len(history) - 1
                /\ currentStateIndex' = currentStateIndex + 1
                /\ isPlaying'
                /\ UNCHANGED history
             \/ /\ currentStateIndex = Len(history) - 1
                /\ UNCHANGED <<currentStateIndex, history>>
                /\ ~isPlaying'
                /\ pendingTimeouts' = {}]_vars
    /\ isPlaying ~> (/\ ~isPlaying
                     /\ currentStateIndex = Len(history) - 1
                     /\ pendingTimeouts = {})

\* C32 witness: a run of several Steps has been played through by the
\* timer alone and has stopped at its last Step.
C32_Witness ==
    /\ Len(history) >= 4
    /\ currentStateIndex = Len(history) - 1
    /\ ~isPlaying
    /\ timerId > 1
    /\ pendingTimeouts = {}
    /\ disabled.btnStart
    /\ ~disabled.btnReset

\* C33: at any moment at most one animation timeout is pending, and one is
\* pending only while isPlaying is true, namely the one window.timerId
\* holds; Pause, Reset and a scrubber move leave none pending, and while
\* isPlaying is false no step changes timerId or schedules a timeout, so
\* only Start sets the timer going again.
C33_OneTimerOnlyWhilePlaying ==
    /\ [](/\ Cardinality(pendingTimeouts) <= 1
          /\ pendingTimeouts # {} =>
                /\ isPlaying
                /\ pendingTimeouts = {timerId})
    /\ [][/\ (handlePause \/ handleReset \/ handleScrubberInput) =>
                /\ ~isPlaying'
                /\ pendingTimeouts' = {}
          /\ (~isPlaying /\ pendingTimeouts' # {}) =>
                /\ handleStart
                /\ isPlaying']_vars

\* C33 witness: playback is running in the middle of a run with its one
\* timeout pending under the second id.
C33_Witness ==
    /\ isPlaying
    /\ pendingTimeouts = {timerId}
    /\ timerId = 2
    /\ currentStateIndex >= 2
    /\ currentStateIndex < Len(history) - 1
    /\ ~disabled.btnPause
    /\ disabled.btnReset

\* C34: handleReset, run in any state (playing, paused, finished or never
\* started), leaves an empty history, currentStateIndex 0, isPlaying
\* false, an empty originalRequestSet and no pending timeout; and a Start
\* or Step Forward that finds the history empty and the inputs valid
\* computes the run of the inputs the form holds then.
C34_ResetFromAnyState ==
    [][/\ (CallHandleReset \/ handleReset) =>
             /\ history' = <<>>
             /\ currentStateIndex' = 0
             /\ ~isPlaying'
             /\ originalRequestSet' = <<>>
             /\ pendingTimeouts' = {}
       /\ (/\ history = <<>>
           /\ handleStart \/ handleStepForward
           /\ parseInputs(requests, startHead, direction, algorithm).ok) =>
             LET inputs == parseInputs(requests, startHead, direction,
                                       algorithm)
             IN /\ history' = calculateSimulationHistory(
                                  algorithm, inputs.requests,
                                  inputs.startHead, inputs.direction)
                /\ originalRequestSet'
                       = OriginalRequestSetOf(algorithm, inputs.requests)
                /\ currentStateIndex' = 1]_vars

\* C34 witness: the page after a Reset that followed playback: nothing of
\* the run is left but the id of its last timeout, and Start is enabled.
C34_Witness ==
    /\ history = <<>>
    /\ currentStateIndex = 0
    /\ ~isPlaying
    /\ originalRequestSet = <<>>
    /\ pendingTimeouts = {}
    /\ timerId # 0
    /\ errorMessageBox = ""
    /\ ~disabled.btnStart
    /\ ~disabled.inputs

\* C35: for the same requests, startHead and direction, the final seek of
\* the generated SCAN run is at least that of the LOOK run, and the final
\* seek of the generated C-SCAN run is at least that of the C-LOOK run.
C35_SweepToBoundaryCostsNoLess ==
    history # <<>> =>
        /\ algorithm = "scan" => FinalStep.seek >= RunSeek("look")
        /\ algorithm = "c-scan" => FinalStep.seek >= RunSeek("c-look")

\* C35 witness: a C-SCAN run over requests on both sides of startHead,
\* none of them at startHead, which costs more than the C-LOOK run.
C35_Witness ==
    /\ algorithm = "c-scan"
    /\ history # <<>>
    /\ \E r \in RequestValues : r < startHead
    /\ \E r \in RequestValues : r > startHead
    /\ startHead \notin RequestValues
    /\ FinalStep.seek > RunSeek("c-look")
    /\ RunSeek("c-look") > 0

\* The run Start computes for the form's inputs with sstf selected, and
\* the seek of its last Step.
SstfRunOfTheForm ==
    LET inputs == parseInputs(requests, startHead, direction, "sstf")
    IN calculateSimulationHistory("sstf", inputs.requests, inputs.startHead,
                                  inputs.direction)
SstfRunSeek == SstfRunOfTheForm[Len(SstfRunOfTheForm)].seek
SstfRow == CHOOSE i \in 1..Len(Rows) : Rows[i].name = "SSTF"

\* C36: for every accepted input, with sstf selected, the total in the SSTF
\* row of the Compare All table equals the final seek of the run that
\* Start computes from the same form.
C36_CompareSstfEqualsRun ==
    (Rows # <<>> /\ algorithm = "sstf") =>
        Rows[SstfRow].seek = SstfRunSeek

====
